---- MODULE Spec2Model ----
(***************************************************************************)
(* Model of Download/SentinelHub/download_data.py: the credential loader   *)
(* and session configurator (authenticate), the main flow with its single  *)
(* try/except, the interactive selection loop and download_data.           *)
(*                                                                         *)
(* Text is modelled as sequences of one-character strings so that          *)
(* readline, strip and slicing are computed, not assumed.  The file system *)
(* is the set of existing directories (paths relative to `path`, the       *)
(* output root, which is the empty path) plus the set of written files.    *)
(***************************************************************************)
EXTENDS Integers, Sequences, FiniteSets, TLC

\* ------------------------------------------------------------------ bounds
MaxFileLen == 6
MaxRecords == 2
NumScenes == 2

\* ------------------------------------------------------------ text helpers
NL == "\n"
Whitespace == {" ", "\t", "\r", NL}
FileAlphabet == {"a", " ", NL}

Text(n) == UNION {[1..k -> FileAlphabet] : k \in 0..n}

RECURSIVE LStrip(_)
LStrip(s) == IF s = <<>> THEN s
             ELSE IF Head(s) \in Whitespace THEN LStrip(Tail(s)) ELSE s

RECURSIVE RStrip(_)
RStrip(s) == IF s = <<>> THEN s
             ELSE IF s[Len(s)] \in Whitespace THEN RStrip(SubSeq(s, 1, Len(s) - 1))
             ELSE s

\* str.strip(): leading and trailing whitespace removed
strip_RightOnly(s) == RStrip(s)
strip(s) == LStrip(RStrip(s))

\* Index of the last character file.readline() returns when the next unread
\* character is at index p: the next newline, or the end of the file.
RECURSIVE LineEnd(_, _)
LineEnd(c, p) == IF p > Len(c) THEN Len(c)
                 ELSE IF c[p] = NL THEN p ELSE LineEnd(c, p + 1)

\* file.readline(): the text from p up to and including the newline ("" at EOF)
readline(c, p) == SubSeq(c, p, LineEnd(c, p))
\* the read position after that readline
tell(c, p) == IF p > Len(c) THEN p ELSE LineEnd(c, p) + 1

\* s[0:n]
Slice(s, n) == SubSeq(s, 1, IF n < Len(s) THEN n ELSE Len(s))

\* ------------------------------------------------------- program constants
\* the accept and abort tokens of the selection loop (line 227, line 232)
AcceptTokens == {"yes", "y", "oui", "o"}
AbortTokens == {"exit", "e"}
\* what the user may type at "Do you want to keep it? (yes/no/exit) "
Responses == AcceptTokens \cup AbortTokens \cup {"no", "", "Yes"}

\* exception classes that `except Exception` catches (KeyboardInterrupt is not one)
ExceptionSubclasses == {"OSError", "EOFError", "FileNotFoundError",
                        "FileExistsError", "DownloadFailedException"}

NoExc == [type |-> "none", site |-> "none"]

\* the three credential prompts of authenticate, in program order
PromptLabels == <<"OAuth instance ID: ", "OAuth client ID: ", "OAuth client secret: ">>
PromptFields == <<"instance_id", "sh_client_id", "sh_client_secret">>
\* what the user may type at a credential prompt (input() strips nothing)
PromptInputs == {<<>>, <<" ", "x">>}

EmptyConfig == [instance_id |-> <<>>, sh_client_id |-> <<>>, sh_client_secret |-> <<>>]
NoParameters == [instance_id |-> <<>>, client_id |-> <<>>, client_secret |-> <<>>]

\* ------------------------------------------------------------ the catalog
SceneNumbers == 1..NumScenes
SceneId(i) == "S" \o ToString(i)
\* acquisition datetime of scene i: 2023-06-0iT10:00:00Z
SceneDatetime(i) == <<"2", "0", "2", "3", "-", "0", "6", "-", "0", ToString(i),
                      "T", "1", "0", ":", "0", "0", ":", "0", "0", "Z">>
SceneRecord(i) == [id |-> SceneId(i),
                   properties |-> [datetime |-> SceneDatetime(i)]]
\* search results: ordered, each scene at most once
Catalogs == {c \in UNION {[1..k -> SceneNumbers] : k \in 0..MaxRecords} :
                \A i, j \in DOMAIN c : i # j => c[i] # c[j]}

\* ------------------------------------------------------- the file system
Root == <<>>
DataDir == <<"data">>
SceneDir(id) == <<"data", id>>
Parent(p) == SubSeq(p, 1, Len(p) - 1)
\* os.path.join(os.path.join(path, "data"), id)
DataFolder(id) == SceneDir(id)
\* directory sets a machine can hold before the run: no output root, the
\* root alone, or what earlier runs of the script left under it
InitialDirs == {{}, {Root}} \cup
               {{Root, DataDir} \cup {SceneDir(SceneId(i)) : i \in S} :
                   S \in SUBSET SceneNumbers}

\* credential files of the main flow: complete, and with no client secret
CompleteFile == <<"a", NL, " ", "a", "a", NL, "a", " ", "a", NL>>
IncompleteFile == <<"a", NL, "a", NL>>
CredFiles == {CompleteFile, IncompleteFile}

\* ------------------------------------------------------------------ state
VARIABLES
    pc,            \* position of the script
    openable,      \* whether open(path_txt, "r+") succeeds
    content,       \* text of parameters.txt
    filePos,       \* read position of `file` (index of the next unread char)
    linesRead,     \* number of readline() calls made
    parameters,    \* the dict built in authenticate
    config,        \* the SHConfig object
    saved,         \* the configuration persisted by config.save()
    credPrompts,   \* credential prompts issued, in order
    credInputs,    \* what was typed at them, in order
    catalog,       \* scene numbers the remote search will return, in order
    dirs0,         \* the directories that existed when the script started
    result_search, \* list(search_iterator)
    idx,           \* 1-based position of the loop in result_search
    id,            \* the loop variable `id`
    new_date,
    keep_it,
    printed,       \* positions of the records printed, in order
    prompted,      \* positions of the records prompted for, in order
    answers,       \* the responses given, in order
    downloads,     \* invocations of download_data, in order
    dirs,          \* existing directories
    dirsAtEntry,   \* dirs when the current download_data was entered
    data_folder,
    request,       \* the SentinelHubRequest built, or NoRequest
    files,         \* files written: [folder, name]
    caught,        \* exception caught and printed by the except clause
    uncaught,      \* exception that propagated to the process boundary
    exit_status,   \* -1 while running
    endReason

vars == <<pc, openable, content, dirs0, filePos, linesRead, parameters, config, saved,
          credPrompts, credInputs, catalog, result_search, idx, id, new_date,
          keep_it, printed, prompted, answers, downloads, dirs, dirsAtEntry,
          data_folder, request, files, caught, uncaught, exit_status, endReason>>

authVars == <<filePos, linesRead, parameters, config, saved, credPrompts, credInputs>>
loopVars == <<result_search, idx, id, new_date, keep_it, printed, prompted,
              answers, downloads>>
diskVars == <<dirs, dirsAtEntry, data_folder, request, files>>
inputVars == <<openable, content, catalog, dirs0>>

NoRequest == [data_folder |-> <<"none">>, time_interval |-> <<>>, config |-> EmptyConfig]

InitCommon ==
    /\ pc = "open"
    /\ filePos = 1
    /\ linesRead = 0
    /\ parameters = NoParameters
    /\ config = EmptyConfig
    /\ saved = EmptyConfig
    /\ credPrompts = <<>>
    /\ credInputs = <<>>
    /\ result_search = <<>>
    /\ idx = 1
    /\ id = ""
    /\ new_date = <<>>
    /\ keep_it = ""
    /\ printed = <<>>
    /\ prompted = <<>>
    /\ answers = <<>>
    /\ downloads = <<>>
    /\ dirsAtEntry = {}
    /\ data_folder = <<"none">>
    /\ request = NoRequest
    /\ files = {}
    /\ caught = NoExc
    /\ uncaught = NoExc
    /\ exit_status = -1
    /\ endReason = "running"

\* the whole script, over two credential files
Init ==
    /\ InitCommon
    /\ openable \in BOOLEAN
    /\ content \in (IF openable THEN CredFiles ELSE {<<>>})
    /\ catalog \in Catalogs
    /\ dirs0 \in InitialDirs
    /\ dirs = dirs0

\* the authentication phase, over every credential file up to MaxFileLen
InitAuth ==
    /\ InitCommon
    /\ openable \in BOOLEAN
    /\ content \in (IF openable THEN Text(MaxFileLen) ELSE {<<>>})
    /\ catalog = <<>>
    /\ dirs0 = {Root}
    /\ dirs = dirs0

\* ------------------------------------------------------- error handling
\* positions of the script inside the try block of the main flow
InTry_OpenOnly(pcv) == pcv = "open"
InTry(pcv) == pcv \in {"open", "auth_load", "auth_save", "auth_check", "auth_input"}

\* exit status of sys.exit() called with no argument
SysExitStatus == 0
\* exit status of the interpreter after an uncaught exception
TracebackStatus == 1

\* An exception of class t is raised at the current position.  Inside the try
\* block an Exception subclass is printed and followed by sys.exit(); anything
\* else reaches the process boundary.
Raise(t) ==
    /\ pc' = "exited"
    /\ IF InTry(pc) /\ t \in ExceptionSubclasses
       THEN /\ caught' = [type |-> t, site |-> pc]
            /\ uncaught' = uncaught
            /\ exit_status' = SysExitStatus
            /\ endReason' = "caught_error"
       ELSE /\ uncaught' = [type |-> t, site |-> pc]
            /\ caught' = caught
            /\ exit_status' = TracebackStatus
            /\ endReason' = "uncaught_error"

Continue(next) ==
    /\ pc' = next
    /\ UNCHANGED <<caught, uncaught, exit_status, endReason>>

\* ---------------------------------------------------------- authenticate
\* file = open(path_txt, "r+")
OpenFile ==
    /\ pc = "open"
    /\ IF openable THEN Continue("auth_load") ELSE Raise("FileNotFoundError")
    /\ UNCHANGED <<inputVars, authVars, loopVars, diskVars>>

\* the three fields of `parameters`, read from position p of text c
LoadParameters(c, p) ==
    LET p2 == tell(c, p)
        p3 == tell(c, p2)
    IN  [instance_id   |-> strip(readline(c, p)),
         client_id     |-> strip(readline(c, p2)),
         client_secret |-> strip(readline(c, p3))]

\* config = SHConfig() followed by the three assignments
Configure(params) ==
    [instance_id      |-> params.instance_id,
     sh_client_id     |-> params.client_id,
     sh_client_secret |-> params.client_secret]

\* lines 72-84: read the three lines, build parameters, configure
AuthLoad ==
    /\ pc = "auth_load"
    /\ parameters' = LoadParameters(content, filePos)
    /\ filePos' = tell(content, tell(content, tell(content, filePos)))
    /\ linesRead' = linesRead + 3
    /\ config' = Configure(parameters')
    /\ Continue("auth_save")
    /\ UNCHANGED <<inputVars, saved, credPrompts, credInputs, loopVars, diskVars>>

\* line 85: config.save(), which may fail
AuthSave ==
    /\ pc = "auth_save"
    /\ \/ /\ saved' = config
          /\ Continue("auth_check")
       \/ /\ saved' = saved
          /\ Raise("OSError")
    /\ UNCHANGED <<inputVars, filePos, linesRead, parameters, config, credPrompts,
                   credInputs, loopVars, diskVars>>

\* line 92: the condition of the prompt branch
NeedsPrompt_Both(cfg) == cfg.sh_client_id = <<>> /\ cfg.sh_client_secret = <<>>
NeedsPrompt(cfg) == cfg.sh_client_id = <<>> \/ cfg.sh_client_secret = <<>>

\* number of credential prompts in the branch
PromptCount == Len(PromptLabels)

AuthCheck ==
    /\ pc = "auth_check"
    /\ Continue(IF NeedsPrompt(config) THEN "auth_input" ELSE "catalog")
    /\ UNCHANGED <<inputVars, authVars, loopVars, diskVars>>

\* lines 94-96: the next input() of the branch; it returns the typed text, or
\* raises EOFError (closed stdin) or KeyboardInterrupt
AuthInput ==
    /\ pc = "auth_input"
    /\ LET k == Len(credPrompts) + 1 IN
       /\ credPrompts' = Append(credPrompts, PromptLabels[k])
       /\ \/ \E v \in PromptInputs :
               /\ credInputs' = Append(credInputs, v)
               /\ config' = [config EXCEPT ![PromptFields[k]] = v]
               /\ Continue(IF k >= PromptCount THEN "catalog" ELSE "auth_input")
          \/ \E t \in {"EOFError", "KeyboardInterrupt"} :
               /\ UNCHANGED <<credInputs, config>>
               /\ Raise(t)
    /\ UNCHANGED <<inputVars, filePos, linesRead, parameters, saved, loopVars, diskVars>>

\* ------------------------------------------------------------- main flow
\* line 212: get_catalog_info(config), a remote call that may fail
GetCatalogInfo ==
    /\ pc = "catalog"
    /\ \/ Continue("search")
       \/ Raise("DownloadFailedException")
    /\ UNCHANGED <<inputVars, authVars, loopVars, diskVars>>

\* lines 221-222: result_search = search_data(bbox, time_interval, config)
SearchData ==
    /\ pc = "search"
    /\ \/ /\ result_search' = [i \in DOMAIN catalog |-> SceneRecord(catalog[i])]
          /\ Continue("loop")
       \/ /\ result_search' = result_search
          /\ Raise("DownloadFailedException")
    /\ UNCHANGED <<inputVars, authVars, idx, id, new_date, keep_it, printed, prompted,
                   answers, downloads, diskVars>>

\* line 227: the accept test
IsAccept_AnyCase(r) == r \in AcceptTokens \cup {"Yes"}
IsAccept(r) == r = "yes" \/ r = "y" \/ r = "oui" \/ r = "o"

\* line 232: the abort test
IsAbort_Never(r) == FALSE
IsAbort(r) == r = "exit" \/ r = "e"

\* line 224: the value enumerate() binds to `id` at position i (1-based here)
EnumerateId(i) == ToString(i - 1)

\* line 228: id = result['id']
AcceptedId_Position(i, result) == EnumerateId(i)
AcceptedId(i, result) == result.id

\* line 229: new_date = result['properties']['datetime'][0:10]
NewDate(result) == Slice(result.properties.datetime, 10)

\* lines 224-230: print the record, prompt, and on an accept token enter
\* download_data with the record's id and date
Select ==
    /\ pc = "loop"
    /\ idx <= Len(result_search)
    /\ printed' = Append(printed, idx)
    /\ prompted' = Append(prompted, idx)
    /\ LET result == result_search[idx] IN
       \/ \E r \in Responses :
            /\ keep_it' = r
            /\ answers' = Append(answers, r)
            /\ IF IsAccept(r)
               THEN /\ id' = AcceptedId(idx, result)
                    /\ new_date' = NewDate(result)
                    /\ downloads' = Append(downloads,
                           [id |-> id', new_date |-> new_date', position |-> idx])
                    /\ dirsAtEntry' = dirs
                    /\ Continue("mkdirs")
               ELSE /\ id' = EnumerateId(idx)
                    /\ UNCHANGED <<new_date, downloads, dirsAtEntry>>
                    /\ Continue("abort_check")
       \/ /\ id' = EnumerateId(idx)
          /\ UNCHANGED <<keep_it, answers, new_date, downloads, dirsAtEntry>>
          /\ Raise("EOFError")
    /\ UNCHANGED <<inputVars, authVars, result_search, idx, dirs, data_folder,
                   request, files>>

\* os.mkdir(p): the parent must exist and p must not
Mkdir(ds, p) ==
    IF p \in ds THEN [err |-> "FileExistsError", dirs |-> ds]
    ELSE IF Parent(p) \notin ds THEN [err |-> "FileNotFoundError", dirs |-> ds]
    ELSE [err |-> "none", dirs |-> ds \cup {p}]

\* if not os.path.exists(p): os.mkdir(p)
EnsureDir_NoCheck(ds, p) == Mkdir(ds, p)
EnsureDir(ds, p) == IF p \notin ds THEN Mkdir(ds, p) ELSE [err |-> "none", dirs |-> ds]

\* lines 136-140: the two levels, in order
CreateFolders_OneLevel(ds, scene) == EnsureDir(ds, DataDir)
CreateFolders(ds, scene) ==
    LET first == EnsureDir(ds, DataDir)
    IN  IF first.err # "none" THEN first ELSE EnsureDir(first.dirs, SceneDir(scene))

\* lines 136-142 of download_data
MakeDirs ==
    /\ pc = "mkdirs"
    /\ LET made == CreateFolders(dirs, id) IN
       /\ dirs' = made.dirs
       /\ IF made.err = "none"
          THEN /\ data_folder' = DataFolder(id)
               /\ Continue("request")
          ELSE /\ data_folder' = data_folder
               /\ Raise(made.err)
    /\ UNCHANGED <<inputVars, authVars, loopVars, dirsAtEntry, request, files>>

\* lines 145-187: the SentinelHubRequest
BuildRequest ==
    /\ pc = "request"
    /\ request' = [data_folder |-> data_folder,
                   time_interval |-> <<new_date, new_date>>,
                   config |-> config]
    /\ Continue("get_data")
    /\ UNCHANGED <<inputVars, authVars, loopVars, dirs, dirsAtEntry, data_folder, files>>

\* lines 190-198: request_all_bands.get_data(save_data=True), which writes the
\* TIFF under the request's data folder or fails
GetData ==
    /\ pc = "get_data"
    /\ \/ /\ files' = files \cup {[folder |-> request.data_folder, name |-> "response.tiff"]}
          /\ Continue("abort_check")
       \/ /\ files' = files
          /\ Raise("DownloadFailedException")
    /\ UNCHANGED <<inputVars, authVars, loopVars, dirs, dirsAtEntry, data_folder, request>>

\* lines 232-233, then the next iteration
AbortCheck ==
    /\ pc = "abort_check"
    /\ IF IsAbort(keep_it)
       THEN /\ pc' = "exited"
            /\ exit_status' = SysExitStatus
            /\ endReason' = "user_abort"
            /\ idx' = idx
       ELSE /\ pc' = "loop"
            /\ idx' = idx + 1
            /\ UNCHANGED <<exit_status, endReason>>
    /\ UNCHANGED <<inputVars, authVars, result_search, id, new_date, keep_it, printed,
                   prompted, answers, downloads, diskVars, caught, uncaught>>

\* the for loop is exhausted: the script ends normally
LoopEnd ==
    /\ pc = "loop"
    /\ idx > Len(result_search)
    /\ pc' = "exited"
    /\ exit_status' = 0
    /\ endReason' = "completed"
    /\ UNCHANGED <<inputVars, authVars, loopVars, diskVars, caught, uncaught>>

Next ==
    \/ OpenFile
    \/ AuthLoad
    \/ AuthSave
    \/ AuthCheck
    \/ AuthInput
    \/ GetCatalogInfo
    \/ SearchData
    \/ Select
    \/ MakeDirs
    \/ BuildRequest
    \/ GetData
    \/ AbortCheck
    \/ LoopEnd

Spec == Init /\ [][Next]_vars

\* authenticate alone, as called from the try block
NextAuth ==
    \/ OpenFile
    \/ AuthLoad
    \/ AuthSave
    \/ AuthCheck
    \/ AuthInput

SpecAuth == InitAuth /\ [][NextAuth]_vars

\* ================================================================ claims
\* positions of the answers that are accept tokens / abort tokens
AcceptedPositions == {k \in DOMAIN answers : answers[k] \in {"yes", "y", "oui", "o"}}
AbortPositions == {k \in DOMAIN answers : answers[k] \in {"exit", "e"}}
DownloadsAt(pos) == {d \in DOMAIN downloads : downloads[d].position = pos}

\* C1: every answered record has exactly one download_data invocation if its
\* answer is one of yes, y, oui, o and none otherwise; the number of
\* invocations is the number of accept answers; each invocation carries the
\* id of its own record and the first 10 characters of its datetime.
C1_DownloadPerAccept ==
    /\ \A k \in DOMAIN answers :
          Cardinality(DownloadsAt(prompted[k])) = (IF k \in AcceptedPositions THEN 1 ELSE 0)
    /\ Len(downloads) = Cardinality(AcceptedPositions)
    /\ \A d \in DOMAIN downloads :
          LET pos == downloads[d].position IN
          /\ pos \in DOMAIN result_search
          /\ \E k \in AcceptedPositions : prompted[k] = pos
          /\ downloads[d].id = result_search[pos].id
          /\ Len(downloads[d].new_date) = 10
          /\ \A i \in 1..10 :
                downloads[d].new_date[i] = result_search[pos].properties.datetime[i]

\* a completed run over two records, the first accepted with `oui`, the second
\* answered `Yes`, with a single download
C1_Witness ==
    /\ endReason = "completed"
    /\ answers = <<"oui", "Yes">>
    /\ Len(downloads) = 1

\* C2: after an answer of exit or e the run ends: the abort answer is the
\* last one, no record after it is printed or prompted for, and neither it
\* nor a later record is downloaded.  Records are printed and prompted for in
\* result order, once each, so a run ended by abort issued as many prompts as
\* the position of the abort answer, and a completed run one per record.
C2_AbortEndsRun ==
    /\ printed = [k \in 1..Len(printed) |-> k]
    /\ prompted = printed
    /\ Len(prompted) <= Len(result_search)
    /\ Len(answers) <= Len(prompted)
    /\ \A k \in AbortPositions :
          /\ k = Len(answers)
          /\ k = Len(prompted)
          /\ pc \in {"abort_check", "exited"}
          /\ pc = "exited" => endReason = "user_abort"
          /\ \A d \in DOMAIN downloads : downloads[d].position < k
    /\ endReason = "user_abort" =>
          /\ AbortPositions # {}
          /\ \A k \in AbortPositions : Len(prompted) = k
    /\ endReason = "completed" =>
          /\ AbortPositions = {}
          /\ Len(prompted) = Len(result_search)

\* two records found, the first answered `e`: the run is over after one prompt
C2_Witness ==
    /\ endReason = "user_abort"
    /\ Len(result_search) = 2
    /\ answers = <<"e">>
    /\ Len(prompted) = 1

\* C3: the exit status is non-zero when the run ended because the credential
\* file could not be opened or because the user answered exit/e, and it is 0
\* only when the loop ran over every record.
C3_ExitStatus ==
    pc = "exited" =>
        /\ (caught.site = "open" \/ endReason = "user_abort") => exit_status # 0
        /\ exit_status = 0 => endReason = "completed"

\* C4 as stated: the only exception the script catches is the failure to
\* open the credential file.
C4_OnlyOpenCaught ==
    caught # NoExc => caught.site = "open"

\* C4 amended: the try block encloses the open and the whole of authenticate
\* and catches every Exception raised there (open failure, config.save
\* failure, EOFError at a credential prompt): it is printed and followed by
\* sys.exit().  Uncaught are only the failures after authenticate returned and
\* exceptions that are not Exception subclasses (KeyboardInterrupt).
C4_TryCoversAuthenticate ==
    /\ caught # NoExc =>
          /\ caught.site \in {"open", "auth_save", "auth_input"}
          /\ caught.type \in {"FileNotFoundError", "OSError", "EOFError"}
          /\ uncaught = NoExc
          /\ pc = "exited" /\ endReason = "caught_error"
    /\ uncaught # NoExc =>
          /\ \/ uncaught.site \in {"catalog", "search", "loop", "mkdirs", "get_data"}
             \/ uncaught.type = "KeyboardInterrupt"
          /\ caught = NoExc
          /\ pc = "exited" /\ endReason = "uncaught_error"
    /\ (pc = "exited" /\ saved # config /\ credPrompts = <<>> /\ linesRead > 0) =>
          caught.site = "auth_save"

\* config.save() failed and the failure was caught and printed
C4_Witness ==
    /\ caught = [type |-> "OSError", site |-> "auth_save"]
    /\ pc = "exited"
    /\ uncaught = NoExc

\* C5: whenever download_data is past its directory step (building the
\* request, downloading), <path>/data/<id> exists, <id> being the scene id of
\* the record being handled, and every file written lies in such a directory.
C5_SceneDirExists ==
    /\ pc \in {"request", "get_data"} =>
          /\ idx \in DOMAIN result_search
          /\ <<"data">> \in dirs
          /\ <<"data", result_search[idx].id>> \in dirs
          /\ data_folder = <<"data", result_search[idx].id>>
    /\ pc = "get_data" => request.data_folder = <<"data", result_search[idx].id>>
    /\ \A f \in files :
          /\ f.folder \in dirs
          /\ \E d \in DOMAIN downloads :
                f.folder = <<"data", result_search[downloads[d].position].id>>

\* the second record is being downloaded and both levels were missing at entry
C5_Witness ==
    /\ pc = "get_data"
    /\ idx = 2
    /\ dirsAtEntry = {<<>>}

\* C6: when <path>/data and <path>/data/<id> exist at entry, the directory
\* step of download_data raises nothing and leaves the directory set as it
\* was; a directory step fails only when the output root itself is missing.
C6_MkdirIdempotent ==
    /\ (pc \in {"request", "get_data"} /\ <<"data", id>> \in dirsAtEntry) =>
          dirs = dirsAtEntry
    /\ (uncaught.site = "mkdirs" \/ caught.site = "mkdirs") =>
          /\ <<>> \notin dirsAtEntry
          /\ dirs = dirsAtEntry

\* download_data passed its directory step for a scene whose directory an
\* earlier invocation had created
C6_Witness ==
    /\ pc = "request"
    /\ <<"data", id>> \in dirsAtEntry
    /\ dirs = dirsAtEntry

\* C8: from an output root with no data directory, when the run has ended
\* otherwise than by abort, the directories data/<id> that exist are exactly
\* those of the records answered with an accept token.
C8_DirsAreAcceptedIds ==
    (dirs0 = {<<>>} /\ pc = "exited" /\ endReason # "user_abort") =>
        {p \in dirs : Len(p) = 2} =
            {<<"data", result_search[prompted[k]].id>> : k \in AcceptedPositions}

\* S1 accepted, S2 rejected: data/S1 exists with a file in it, data/S2 does not
C8_Witness ==
    /\ dirs0 = {<<>>}
    /\ endReason = "completed"
    /\ Len(result_search) = 2
    /\ result_search[1].id = "S1" /\ result_search[2].id = "S2"
    /\ answers = <<"yes", "no">>
    /\ <<"data", "S1">> \in dirs
    /\ <<"data", "S2">> \notin dirs
    /\ \E f \in files : f.folder = <<"data", "S1">>

\* reference reading of a credential text: its lines and their trimmed form
NewlineAt(c) == {i \in 1..Len(c) : c[i] = "\n"}
LineCount(c) ==
    Cardinality(NewlineAt(c)) + (IF c # <<>> /\ c[Len(c)] # "\n" THEN 1 ELSE 0)
\* index of the k-th newline of c (0 for k = 0, Len(c) + 1 when there is none)
NthNewline(c, k) ==
    IF k = 0 THEN 0
    ELSE IF k > Cardinality(NewlineAt(c)) THEN Len(c) + 1
    ELSE CHOOSE i \in NewlineAt(c) : Cardinality({j \in NewlineAt(c) : j <= i}) = k
\* the k-th line of c without its newline
NthLine(c, k) == SubSeq(c, NthNewline(c, k - 1) + 1, NthNewline(c, k) - 1)
Trimmed(s) ==
    LET solid == {i \in 1..Len(s) : s[i] \notin {" ", "\t", "\r", "\n"}}
    IN  IF solid = {} THEN <<>>
        ELSE SubSeq(s, CHOOSE i \in solid : \A j \in solid : i <= j,
                       CHOOSE i \in solid : \A j \in solid : j <= i)
FieldOfLine(k) == Trimmed(NthLine(content, k))

\* C7: when authenticate returns, if the loaded client id or client secret
\* is empty then exactly the three prompts instance id, client id, client
\* secret were issued, in that order, and the configuration holds the three
\* typed values; if both are non-empty no prompt was issued.
C7_PromptsExactlyThree ==
    /\ Len(credPrompts) <= 3
    /\ \A k \in DOMAIN credPrompts :
          credPrompts[k] = <<"OAuth instance ID: ", "OAuth client ID: ",
                             "OAuth client secret: ">>[k]
    /\ (pc \notin {"open", "auth_load", "auth_save", "auth_check", "auth_input", "exited"}) =>
          IF parameters.client_id = <<>> \/ parameters.client_secret = <<>>
          THEN /\ Len(credPrompts) = 3
               /\ Len(credInputs) = 3
               /\ config = [instance_id      |-> credInputs[1],
                            sh_client_id     |-> credInputs[2],
                            sh_client_secret |-> credInputs[3]]
          ELSE /\ credPrompts = <<>>
               /\ credInputs = <<>>

\* authenticate returned after three prompts although a client id was loaded
C7_Witness ==
    /\ pc = "catalog"
    /\ parameters.client_id # <<>>
    /\ parameters.client_secret = <<>>
    /\ Len(credPrompts) = 3
    /\ credInputs = << <<" ", "x">>, <<>>, <<" ", "x">> >>

\* C9: for a credential text of three lines, authenticate consumes exactly
\* the three lines and the fields are the trimmed lines in file order; when
\* client id and client secret are non-empty the returned configuration holds
\* these three values.
C9_ThreeTrimmedLines ==
    (openable /\ LineCount(content) = 3) =>
        /\ pc \notin {"open", "auth_load"} =>
              /\ filePos = Len(content) + 1
              /\ parameters = [instance_id   |-> FieldOfLine(1),
                               client_id     |-> FieldOfLine(2),
                               client_secret |-> FieldOfLine(3)]
        /\ (pc = "catalog" /\ FieldOfLine(2) # <<>> /\ FieldOfLine(3) # <<>>) =>
              config = [instance_id      |-> FieldOfLine(1),
                        sh_client_id     |-> FieldOfLine(2),
                        sh_client_secret |-> FieldOfLine(3)]

\* authenticate returned the fields of a three-line text with leading
\* whitespace on its first line
C9_Witness ==
    /\ pc = "catalog"
    /\ LineCount(content) = 3
    /\ content[1] = " "
    /\ config.instance_id = <<"a">>
    /\ config.sh_client_id # <<>>
    /\ config.sh_client_secret # <<>>

\* C10: when authenticate has returned, the persisted configuration equals
\* the returned one.
C10_PersistedIsReturned ==
    (pc \notin {"open", "auth_load", "auth_save", "auth_check", "auth_input", "exited"}) =>
        saved = config

====
